---- MODULE Spec2Model ----
(***************************************************************************)
(* Model of src/main.go: a GraphQL endpoint whose five resolvers read and  *)
(* write one package-level slice, TodoList, with no synchronisation.       *)
(*                                                                         *)
(* A Go slice is a header (ptr, len, cap) over a backing array, so the     *)
(* model keeps the header in TodoList and the arrays in heap.  Every       *)
(* request is served by its own goroutine (net/http); a handler is one     *)
(* such goroutine.  A resolver that touches the shared slice more than     *)
(* once is split at those accesses; a load or store of the header is taken *)
(* as one step.                                                            *)
(*                                                                         *)
(* History (ghost) state, not present in the program: the field n of a     *)
(* record (the number of the createTodo call that built it, 0 for the      *)
(* seeded records), the variables created, pre, nReq and nCreate.          *)
(***************************************************************************)
EXTENDS Integers, Sequences, FiniteSets, TLC

VARIABLES TodoList, heap, pc, req, loc, ret, pre, created, nReq, nCreate

vars == <<TodoList, heap, pc, req, loc, ret, pre, created, nReq, nCreate>>

(* Bounds *)
MaxRequests == 3

\* the goroutines that serve requests at the same time
Handlers == 1..2

(* ---------------------------------------------------------------------- *)
(* Data                                                                     *)
(* ---------------------------------------------------------------------- *)

\* type Todo struct; the zero value Todo{}
ZeroTodo == [ID |-> "", Text |-> "", Done |-> FALSE, Task |-> "", n |-> 0]

\* the four fields the program has (n is history only)
Fields(t) == <<t.ID, t.Text, t.Done, t.Task>>

\* a nil slice
NilSlice == [ptr |-> 0, len |-> 0, cap |-> 0]

\* a slip of init(): nothing is appended
SeedTodos_none == << >>

\* the records init() appends
SeedTodos ==
  << [ID |-> "a", Text |-> "A todo not to forget", Done |-> FALSE, Task |-> "", n |-> 0],
     [ID |-> "b", Text |-> "This is the most important", Done |-> FALSE, Task |-> "", n |-> 0],
     [ID |-> "c", Text |-> "Please do this or else", Done |-> FALSE, Task |-> "", n |-> 0] >>

\* Go's growslice for a slice shorter than 256 elements: the capacity doubles
\* (a nil slice gets exactly the capacity asked for).
GrowCap(cap, needed) == IF needed > cap + cap THEN needed ELSE cap + cap

\* a fresh backing array of capacity c holding the elements xs
NewArray(xs, c) == [i \in 1..c |-> IF i <= Len(xs) THEN xs[i] ELSE ZeroTodo]

\* the elements a slice header shows: s[0:len]
View(s, h) == IF s.len = 0 THEN << >> ELSE [i \in 1..s.len |-> h[s.ptr][i]]

\* s[i] with Go's 0-based index
At(s, h, i) == h[s.ptr][i + 1]

\* params.Args[k].(string): the value, or "" when the argument is absent
StrArg(args, k) == IF k \in DOMAIN args THEN args[k] ELSE ""

\* a slip of the coercion: an absent flag read as true
BoolArg_true(args, k) == IF k \in DOMAIN args THEN args[k] ELSE TRUE

\* params.Args[k].(bool): the value, or false when the argument is absent
BoolArg(args, k) == IF k \in DOMAIN args THEN args[k] ELSE FALSE

\* a graphql.NewNonNull argument: the library rejects the request when absent
HasArgs(args, required) == required \subseteq DOMAIN args

(* resolver results: (interface{}, error) *)
NoRet == [kind |-> "none", todo |-> ZeroTodo, s |-> NilSlice, err |-> ""]
RetTodo(t) == [kind |-> "todo", todo |-> t, s |-> NilSlice, err |-> ""]
RetSlice(s) == [kind |-> "list", todo |-> ZeroTodo, s |-> s, err |-> ""]
RetError(e) == [kind |-> "error", todo |-> ZeroTodo, s |-> NilSlice, err |-> e]

NoReq == [op |-> "none", args |-> << >>]
NoLoc == [newTodo |-> ZeroTodo, s |-> NilSlice, i |-> 0, affectedTodo |-> ZeroTodo]

(* ---------------------------------------------------------------------- *)
(* Request inputs                                                           *)
(* ---------------------------------------------------------------------- *)
CreateArgs ==
  { [text |-> "Buy milk", task |-> ""],
    [text |-> "", task |-> "x"],
    [text |-> "Buy milk"],
    [task |-> "x"] }

Ids == {"b", "id0001", "nonexistent"}

UpdateArgs ==
  { [id |-> i, done |-> d] : i \in Ids, d \in BOOLEAN }
  \cup { [id |-> "id0001"], [done |-> TRUE] }

TodoArgs == { [id |-> i] : i \in Ids } \cup { << >> }

(* ---------------------------------------------------------------------- *)
(* Pure parts of the resolvers                                              *)
(* ---------------------------------------------------------------------- *)

\* the record createTodo builds
NewTodo(text, task, n) ==
  [ID |-> "id0001", Text |-> text, Done |-> TRUE, Task |-> task, n |-> n]

\* the index (0-based) of the first record of xs with the given id, or Len(xs)
RECURSIVE FirstIndexFrom(_, _, _)
FirstIndexFrom(xs, id, i) ==
  IF i >= Len(xs) THEN Len(xs)
  ELSE IF xs[i + 1].ID = id THEN i
  ELSE FirstIndexFrom(xs, id, i + 1)

FirstIndex(xs, id) == FirstIndexFrom(xs, id, 0)

\* a slip of todo: when no record matches, the last record looked at is
\* returned instead of Todo{}
TodoResolve_stale(xs, args) ==
  IF "id" \in DOMAIN args /\ FirstIndex(xs, args.id) < Len(xs)
  THEN xs[FirstIndex(xs, args.id) + 1]
  ELSE IF "id" \in DOMAIN args /\ Len(xs) > 0 THEN xs[Len(xs)] ELSE ZeroTodo

\* the todo resolver over the elements xs
TodoResolve(xs, args) ==
  IF "id" \in DOMAIN args /\ FirstIndex(xs, args.id) < Len(xs)
  THEN xs[FirstIndex(xs, args.id) + 1]
  ELSE ZeroTodo

\* a slip of lastTodo: the record before the last one
LastTodoResolve_prev(s, h) == At(s, h, s.len - 2)

\* the lastTodo resolver: TodoList[len(TodoList)-1]
LastTodoResolve(s, h) == At(s, h, s.len - 1)

\* a slip of updateTodo: the flag is set on a copy of the record (t := TodoList[i];
\* t.Done = done), so the array keeps the old value
SetDone_copy(h, s, i, d) == h

\* a slip of updateTodo: the whole record is replaced by one that carries
\* only the flag (TodoList[i] = Todo{Done: done})
SetDone_whole(h, s, i, d) == [h EXCEPT ![s.ptr][i + 1] = [ZeroTodo EXCEPT !.Done = d]]

\* TodoList[i].Done = done
SetDone(h, s, i, d) == [h EXCEPT ![s.ptr][i + 1].Done = d]

\* append(s, t): the new header and the heap after it
AppendSlice(s, h, t) ==
  IF s.len < s.cap
  THEN [s |-> [s EXCEPT !.len = s.len + 1],
        h |-> [h EXCEPT ![s.ptr][s.len + 1] = t]]
  ELSE LET c == GrowCap(s.cap, s.len + 1)
       IN [s |-> [ptr |-> Len(h) + 1, len |-> s.len + 1, cap |-> c],
           h |-> Append(h, NewArray(Append(View(s, h), t), c))]

(* ---------------------------------------------------------------------- *)
(* Initial state: after init()                                              *)
(* ---------------------------------------------------------------------- *)
Init ==
  /\ TodoList = [ptr |-> 1, len |-> Len(SeedTodos),
                 cap |-> GrowCap(0, Len(SeedTodos))]
  /\ heap = << NewArray(SeedTodos, GrowCap(0, Len(SeedTodos))) >>
  /\ pc = [p \in Handlers |-> "idle"]
  /\ req = [p \in Handlers |-> NoReq]
  /\ loc = [p \in Handlers |-> NoLoc]
  /\ ret = [p \in Handlers |-> NoRet]
  /\ pre = [p \in Handlers |-> << >>]
  /\ created = << >>
  /\ nReq = 0
  /\ nCreate = 0

\* a request arrives and is served by the first idle handler (goroutines
\* have no identity, so which one serves it makes no difference)
Accept(p, op, args) ==
  /\ pc[p] = "idle"
  /\ \A q \in Handlers : q < p => pc[q] # "idle"
  /\ nReq < MaxRequests
  /\ nReq' = nReq + 1
  /\ req' = [req EXCEPT ![p] = [op |-> op, args |-> args]]
  /\ pre' = [pre EXCEPT ![p] = View(TodoList, heap)]

\* the library refuses a request that lacks a NonNull argument
Reject(p) ==
  /\ pc' = [pc EXCEPT ![p] = "done"]
  /\ ret' = [ret EXCEPT ![p] = RetError("argument required")]
  /\ UNCHANGED <<TodoList, heap, loc, created, nCreate>>

(* ---------------------------------------------------------------------- *)
(* createTodo                                                               *)
(* ---------------------------------------------------------------------- *)
createTodo(p) ==
  \E args \in CreateArgs :
    /\ Accept(p, "createTodo", args)
    /\ IF HasArgs(args, {"text", "task"})
       THEN /\ nCreate' = nCreate + 1
            /\ loc' = [loc EXCEPT ![p].newTodo =
                         NewTodo(StrArg(args, "text"), StrArg(args, "task"),
                                 nCreate + 1)]
            /\ pc' = [pc EXCEPT ![p] = "load"]
            /\ UNCHANGED <<TodoList, heap, ret, created>>
       ELSE Reject(p)

\* append(TodoList, newTodo), first half: the slice header is loaded
createTodoLoad(p) ==
  /\ pc[p] = "load"
  /\ loc' = [loc EXCEPT ![p].s = TodoList]
  /\ pc' = [pc EXCEPT ![p] = "append"]
  /\ UNCHANGED <<TodoList, heap, req, ret, pre, created, nReq, nCreate>>

\* append(TodoList, newTodo), second half: the element is written, in place
\* or into a grown copy of the array
createTodoAppend(p) ==
  /\ pc[p] = "append"
  /\ LET r == AppendSlice(loc[p].s, heap, loc[p].newTodo)
     IN /\ heap' = r.h
        /\ loc' = [loc EXCEPT ![p].s = r.s]
  /\ pc' = [pc EXCEPT ![p] = "store"]
  /\ UNCHANGED <<TodoList, req, ret, pre, created, nReq, nCreate>>

\* TodoList = <the appended slice>
createTodoStore(p) ==
  /\ pc[p] = "store"
  /\ TodoList' = loc[p].s
  /\ pc' = [pc EXCEPT ![p] = "return"]
  /\ UNCHANGED <<heap, req, loc, ret, pre, created, nReq, nCreate>>

\* return TodoList, nil
createTodoReturn(p) ==
  /\ pc[p] = "return"
  /\ ret' = [ret EXCEPT ![p] = RetSlice(TodoList)]
  /\ created' = Append(created, loc[p].newTodo)
  /\ pc' = [pc EXCEPT ![p] = "done"]
  /\ UNCHANGED <<TodoList, heap, req, loc, pre, nReq, nCreate>>

(* ---------------------------------------------------------------------- *)
(* updateTodo                                                               *)
(* ---------------------------------------------------------------------- *)
updateTodo(p) ==
  \E args \in UpdateArgs :
    /\ Accept(p, "updateTodo", args)
    /\ IF HasArgs(args, {"id"})
       THEN /\ loc' = [loc EXCEPT ![p] = NoLoc]
            /\ pc' = [pc EXCEPT ![p] = "scan"]
            /\ UNCHANGED <<TodoList, heap, ret, created, nCreate>>
       ELSE Reject(p)

\* one test of the for loop: i < len(TodoList), then TodoList[i].ID == id
updateTodoScan(p) ==
  /\ pc[p] = "scan"
  /\ IF loc[p].i < TodoList.len
     THEN /\ IF At(TodoList, heap, loc[p].i).ID = StrArg(req[p].args, "id")
             THEN /\ pc' = [pc EXCEPT ![p] = "write"]
                  /\ loc' = loc
             ELSE /\ loc' = [loc EXCEPT ![p].i = loc[p].i + 1]
                  /\ pc' = pc
          /\ ret' = ret
     ELSE /\ ret' = [ret EXCEPT ![p] = RetTodo(loc[p].affectedTodo)]
          /\ pc' = [pc EXCEPT ![p] = "done"]
          /\ loc' = loc
  /\ UNCHANGED <<TodoList, heap, req, pre, created, nReq, nCreate>>

\* TodoList[i].Done = done
updateTodoWrite(p) ==
  /\ pc[p] = "write"
  /\ IF loc[p].i < TodoList.len
     THEN /\ heap' = SetDone(heap, TodoList, loc[p].i,
                             BoolArg(req[p].args, "done"))
          /\ pc' = [pc EXCEPT ![p] = "read"]
          /\ ret' = ret
     ELSE /\ ret' = [ret EXCEPT ![p] = RetError("index out of range")]
          /\ pc' = [pc EXCEPT ![p] = "done"]
          /\ heap' = heap
  /\ UNCHANGED <<TodoList, req, loc, pre, created, nReq, nCreate>>

\* affectedTodo = TodoList[i]; break; return affectedTodo, nil
updateTodoRead(p) ==
  /\ pc[p] = "read"
  /\ IF loc[p].i < TodoList.len
     THEN /\ loc' = [loc EXCEPT ![p].affectedTodo = At(TodoList, heap, loc[p].i)]
          /\ ret' = [ret EXCEPT ![p] = RetTodo(At(TodoList, heap, loc[p].i))]
     ELSE /\ ret' = [ret EXCEPT ![p] = RetError("index out of range")]
          /\ loc' = loc
  /\ pc' = [pc EXCEPT ![p] = "done"]
  /\ UNCHANGED <<TodoList, heap, req, pre, created, nReq, nCreate>>

(* ---------------------------------------------------------------------- *)
(* Queries                                                                  *)
(* ---------------------------------------------------------------------- *)
\* for _, todo := range TodoList: the slice is evaluated once and the first
\* record with the id is copied out (the reads of the loop are one step)
todo(p) ==
  \E args \in TodoArgs :
    /\ Accept(p, "todo", args)
    /\ ret' = [ret EXCEPT ![p] = RetTodo(TodoResolve(View(TodoList, heap), args))]
    /\ pc' = [pc EXCEPT ![p] = "done"]
    /\ UNCHANGED <<TodoList, heap, loc, created, nCreate>>

\* a slip of lastTodo: the record is popped, TodoList = TodoList[:len-1]
lastTodo_pop(p) ==
  /\ Accept(p, "lastTodo", << >>)
  /\ ret' = [ret EXCEPT ![p] =
               IF TodoList.len = 0 THEN RetError("index out of range")
               ELSE RetTodo(LastTodoResolve(TodoList, heap))]
  /\ pc' = [pc EXCEPT ![p] = "done"]
  /\ TodoList' = IF TodoList.len = 0 THEN TodoList
                 ELSE [TodoList EXCEPT !.len = TodoList.len - 1]
  /\ UNCHANGED <<heap, loc, created, nCreate>>

lastTodo(p) ==
  /\ Accept(p, "lastTodo", << >>)
  /\ ret' = [ret EXCEPT ![p] =
               IF TodoList.len = 0 THEN RetError("index out of range")
               ELSE RetTodo(LastTodoResolve(TodoList, heap))]
  /\ pc' = [pc EXCEPT ![p] = "done"]
  /\ UNCHANGED <<TodoList, heap, loc, created, nCreate>>

todoList(p) ==
  /\ Accept(p, "todoList", << >>)
  /\ ret' = [ret EXCEPT ![p] = RetSlice(TodoList)]
  /\ pc' = [pc EXCEPT ![p] = "done"]
  /\ UNCHANGED <<TodoList, heap, loc, created, nCreate>>

\* the response is written and the goroutine ends
Respond(p) ==
  /\ pc[p] = "done"
  /\ pc' = [pc EXCEPT ![p] = "idle"]
  /\ req' = [req EXCEPT ![p] = NoReq]
  /\ loc' = [loc EXCEPT ![p] = NoLoc]
  /\ ret' = [ret EXCEPT ![p] = NoRet]
  /\ pre' = [pre EXCEPT ![p] = << >>]
  /\ UNCHANGED <<TodoList, heap, created, nReq, nCreate>>

Step(p) ==
  \/ createTodo(p)
  \/ createTodoLoad(p)
  \/ createTodoAppend(p)
  \/ createTodoStore(p)
  \/ createTodoReturn(p)
  \/ updateTodo(p)
  \/ updateTodoScan(p)
  \/ updateTodoWrite(p)
  \/ updateTodoRead(p)
  \/ todo(p)
  \/ lastTodo(p)
  \/ todoList(p)
  \/ Respond(p)

\* handlers run concurrently, one goroutine per request
Next == \E p \in Handlers : Step(p)

Spec == Init /\ [][Next]_vars

\* one request at a time: a handler steps only while every other one is idle
Alone(p) == \A q \in Handlers \ {p} : pc[q] = "idle"

NextSeq ==
  \E p \in Handlers :
    \/ Alone(p) /\ createTodo(p)
    \/ Alone(p) /\ createTodoLoad(p)
    \/ Alone(p) /\ createTodoAppend(p)
    \/ Alone(p) /\ createTodoStore(p)
    \/ Alone(p) /\ createTodoReturn(p)
    \/ Alone(p) /\ updateTodo(p)
    \/ Alone(p) /\ updateTodoScan(p)
    \/ Alone(p) /\ updateTodoWrite(p)
    \/ Alone(p) /\ updateTodoRead(p)
    \/ Alone(p) /\ todo(p)
    \/ Alone(p) /\ lastTodo(p)
    \/ Alone(p) /\ todoList(p)
    \/ Alone(p) /\ Respond(p)

SeqSpec == Init /\ [][NextSeq]_vars

(* ---------------------------------------------------------------------- *)
(* Properties                                                               *)
(* ---------------------------------------------------------------------- *)

\* the records of the collection, in order
Stored == View(TodoList, heap)

\* handler p has finished a request of the kind op and not yet responded
Finished(p, op) == pc[p] = "done" /\ req[p].op = op

\* the resolver of p returned a nil error
Succeeded(p) == ret[p].kind # "error"

\* no createTodo is between its call and its return
NoCreateRunning == \A p \in Handlers : pc[p] \notin {"load", "append", "store", "return"}

\* C1: no two records of the collection have the same id.
C1_UniqueIds ==
  \A i, j \in 1..Len(Stored) : i # j => Stored[i].ID # Stored[j].ID

\* C2: once every concurrent createTodo has completed, the collection holds
\* exactly one record for each completed Create and the records stored
\* before keep their order.
C2_NoCreateLost ==
  NoCreateRunning =>
    /\ \A k \in 1..Len(created) :
         Cardinality({i \in 1..Len(Stored) : Stored[i].n = created[k].n}) = 1
    /\ \A i \in 1..Len(SeedTodos) : Stored[i].ID = SeedTodos[i].ID

\* C3: what todoList returns has as many records as Create calls have
\* succeeded so far, in the order of those calls.
C3_ListIsCreates ==
  NoCreateRunning =>
    /\ Len(View(RetSlice(TodoList).s, heap)) = Len(created)
    /\ \A i \in 1..Len(created) :
         i <= Len(Stored) /\ Stored[i].n = created[i].n

\* C4: after N >= 1 Creates, with any Updates and reads in between, lastTodo
\* returns the record of the N-th Create (its id, text and task and its
\* current done flag).
C4_LastIsNthCreate ==
  \A p \in Handlers :
    Finished(p, "lastTodo") /\ Len(created) >= 1 =>
      /\ ret[p].kind = "todo"
      /\ ret[p].todo.n = created[Len(created)].n
      /\ ret[p].todo.ID = created[Len(created)].ID
      /\ ret[p].todo.Text = created[Len(created)].Text
      /\ ret[p].todo.Task = created[Len(created)].Task
      /\ ret[p].todo = Stored[Len(Stored)]

\* C4 witness: lastTodo has answered after two Creates of different records.
C4_Witness ==
  \E p \in Handlers :
    /\ Finished(p, "lastTodo")
    /\ Len(created) >= 2
    /\ created[1].Text # created[2].Text

\* C5: a todo query made right after a Create, with the id the Create
\* assigned, returns a record equal in id, text, task and done to the one
\* the Create stored.
C5_GetAfterCreate ==
  \A p \in Handlers :
    Finished(p, "createTodo") /\ Succeeded(p) =>
      Fields(TodoResolve(Stored, [id |-> loc[p].newTodo.ID]))
        = Fields(loc[p].newTodo)

\* the record the todo query finds for the id of p's request in xs
Found(p, xs) == TodoResolve(xs, [id |-> req[p].args.id])

\* p has finished updateTodo(id, true) for an id that was in the store
UpdatedTrue(p) ==
  /\ Finished(p, "updateTodo")
  /\ HasArgs(req[p].args, {"id", "done"})
  /\ req[p].args.done = TRUE
  /\ FirstIndex(pre[p], req[p].args.id) < Len(pre[p])

\* C6: for an id in the store, Update(id, true) followed by Get(id) gives
\* a record with done = true and the id, text and task it had before.
C6_UpdateThenGet ==
  \A p \in Handlers :
    UpdatedTrue(p) =>
      /\ Found(p, Stored).Done = TRUE
      /\ Found(p, Stored).ID = Found(p, pre[p]).ID
      /\ Found(p, Stored).Text = Found(p, pre[p]).Text
      /\ Found(p, Stored).Task = Found(p, pre[p]).Task
      /\ Found(p, Stored).n = Found(p, pre[p]).n

\* C6 witness: an Update(id, true) has finished on a record that was not done.
C6_Witness ==
  \E p \in Handlers : UpdatedTrue(p) /\ Found(p, pre[p]).Done = FALSE

\* C7: updateTodo with an id no record has fails with an error the client
\* sees and leaves the collection as it was.
C7_UpdateMissingFails ==
  \A p \in Handlers :
    /\ Finished(p, "updateTodo")
    /\ HasArgs(req[p].args, {"id"})
    /\ FirstIndex(pre[p], req[p].args.id) = Len(pre[p])
    => /\ ret[p].kind = "error"
       /\ Stored = pre[p]

\* C8: createTodo with an empty text fails and stores nothing.
C8_EmptyTextRejected ==
  \A p \in Handlers :
    /\ Finished(p, "createTodo")
    /\ HasArgs(req[p].args, {"text"})
    /\ req[p].args.text = ""
    => /\ ret[p].kind = "error"
       /\ Stored = pre[p]

\* C9: the record a Create stores has done = false when it is created, and
\* so has the record the Create returns.
C9_CreatedNotDone ==
  \A p \in Handlers :
    Finished(p, "createTodo") /\ Succeeded(p) =>
      /\ \A i \in 1..Len(Stored) :
           Stored[i].n = loc[p].newTodo.n => Stored[i].Done = FALSE
      /\ ret[p].kind = "todo" => ret[p].todo.Done = FALSE

\* C10: a successful Create appends exactly one record at the end of the
\* collection and returns that record, with the text and task given.
C10_CreateAppendsAndReturnsOne ==
  \A p \in Handlers :
    Finished(p, "createTodo") /\ Succeeded(p) =>
      /\ Len(Stored) = Len(pre[p]) + 1
      /\ SubSeq(Stored, 1, Len(pre[p])) = pre[p]
      /\ Stored[Len(Stored)].Text = req[p].args.text
      /\ Stored[Len(Stored)].Task = req[p].args.task
      /\ ret[p].kind = "todo"
      /\ ret[p].todo = Stored[Len(Stored)]

\* C12: no step, of any interleaving of handlers, makes the collection
\* shorter.
C12_SizeNeverDecreases == [][TodoList'.len >= TodoList.len]_vars

\* C13: the list todoList returned is a snapshot: while the caller holds it,
\* no step of a later Create or Update changes the records it shows.
C13_ListIsSnapshot ==
  [][\A p \in Handlers :
       Finished(p, "todoList") /\ ret'[p] = ret[p] =>
         View(ret[p].s, heap') = View(ret[p].s, heap)]_vars

\* handler p takes the step that serves a query of the kind op
Serves(p, op) == pc[p] = "idle" /\ pc'[p] = "done" /\ req'[p].op = op

\* the id of the request p is serving, after the step, is given and stored
Hit(p) ==
  /\ "id" \in DOMAIN req'[p].args
  /\ FirstIndex(Stored, req'[p].args.id) < Len(Stored)

\* C14: a todo query with an id no record has, or with no id, answers with
\* the empty record and no error, and leaves the collection as it was.
C14_TodoMissIsNoResult ==
  [][\A p \in Handlers :
       Serves(p, "todo") /\ ~Hit(p) =>
         /\ ret'[p] = RetTodo(ZeroTodo)
         /\ ret'[p].err = ""
         /\ TodoList' = TodoList
         /\ heap' = heap]_vars

\* C14 witness: a todo query for an id that is not stored has answered, after
\* a Create.
C14_Witness ==
  \E p \in Handlers :
    /\ Finished(p, "todo")
    /\ HasArgs(req[p].args, {"id"})
    /\ FirstIndex(pre[p], req[p].args.id) = Len(pre[p])
    /\ Len(pre[p]) > Len(SeedTodos)

\* p has finished updateTodo(id), without the done argument, for a stored id
UpdatedNoFlag(p) ==
  /\ Finished(p, "updateTodo")
  /\ HasArgs(req[p].args, {"id"})
  /\ "done" \notin DOMAIN req[p].args
  /\ FirstIndex(pre[p], req[p].args.id) < Len(pre[p])

\* C15: updateTodo(id) without done acts as updateTodo(id, false): the
\* record with the id ends with done = false, also when it was true, and the
\* resolver returns that record.
C15_UpdateDefaultsToFalse ==
  \A p \in Handlers :
    UpdatedNoFlag(p) =>
      /\ Found(p, Stored).Done = FALSE
      /\ Found(p, Stored).n = Found(p, pre[p]).n
      /\ ret[p] = RetTodo([Found(p, pre[p]) EXCEPT !.Done = FALSE])

\* C15 witness: updateTodo(id) without done has finished on a record that
\* was done.
C15_Witness ==
  \E p \in Handlers : UpdatedNoFlag(p) /\ Found(p, pre[p]).Done = TRUE

\* C16: createTodo with a non-empty text and no task succeeds and stores a
\* record whose task is the empty string.
C16_TaskIsOptional ==
  \A p \in Handlers :
    /\ Finished(p, "createTodo")
    /\ HasArgs(req[p].args, {"text"})
    /\ req[p].args.text # ""
    /\ "task" \notin DOMAIN req[p].args
    => /\ ret[p].kind # "error"
       /\ Len(Stored) = Len(pre[p]) + 1
       /\ Stored[Len(Stored)].Text = req[p].args.text
       /\ Stored[Len(Stored)].Task = ""

\* handler p, inside updateTodo, takes a step
UpdateSteps(p) ==
  /\ req[p].op = "updateTodo"
  /\ pc[p] \in {"scan", "write", "read"}
  /\ <<pc[p], loc[p], ret[p]>> # <<pc'[p], loc'[p], ret'[p]>>

\* the record in slot j of array a is the one updateTodo of p selected
Selected(p, a, j) == pc[p] = "write" /\ a = TodoList.ptr /\ j = loc[p].i + 1

\* C17: a step of updateTodo leaves the length and the order of the
\* collection and the id, text and task of every record as they were, and
\* changes the done flag of no record but the one it selected.
C17_UpdateChangesOnlyDone ==
  [][\A p \in Handlers :
       UpdateSteps(p) =>
         /\ TodoList' = TodoList
         /\ Len(heap') = Len(heap)
         /\ \A a \in 1..Len(heap) : \A j \in 1..Len(heap[a]) :
              /\ heap'[a][j].ID = heap[a][j].ID
              /\ heap'[a][j].Text = heap[a][j].Text
              /\ heap'[a][j].Task = heap[a][j].Task
              /\ heap'[a][j].n = heap[a][j].n
              /\ Selected(p, a, j) \/ heap'[a][j].Done = heap[a][j].Done]_vars

\* C17 witness: an Update has finished that changed the flag of a record
\* created after start-up.
C17_Witness ==
  \E p \in Handlers :
    /\ Finished(p, "updateTodo")
    /\ ret[p].kind = "todo"
    /\ ret[p].todo.n > 0
    /\ ret[p].todo.Done = FALSE

\* C18: when an updateTodo for a stored id and a createTodo ran at the same
\* time and both have completed, the record with that id has the done value
\* the Update wrote.
C18_UpdateNotLost ==
  \A p, q \in Handlers :
    /\ nReq = 2
    /\ Finished(p, "updateTodo")
    /\ Finished(q, "createTodo")
    /\ HasArgs(req[p].args, {"id"})
    /\ FirstIndex(pre[p], req[p].args.id) < Len(pre[p])
    => Found(p, Stored).Done = BoolArg(req[p].args, "done")

C20_QueriesReadOnly ==
  [][\A p \in Handlers :
       Serves(p, "todo") \/ Serves(p, "lastTodo") \/ Serves(p, "todoList") =>
         /\ TodoList' = TodoList
         /\ heap' = heap
         /\ View(TodoList', heap') = Stored]_vars

\* C20 witness: each of the three queries has been served on a collection
\* that holds a created record.
C20_Witness ==
  /\ nReq = MaxRequests
  /\ Len(Stored) > Len(SeedTodos)
  /\ \E p \in Handlers :
       /\ pc[p] = "done"
       /\ req[p].op \in {"todo", "lastTodo", "todoList"}
       /\ Len(pre[p]) > Len(SeedTodos)

====
